---- MODULE Spec2Model ----
(***************************************************************************)
(* A model of steam_find (src/src/lib.rs): the VDF parser vdf_parse with   *)
(* its string decoder parse_str, the Value tree (index, as_str, as_int,    *)
(* iter) and the two discovery operations steam_apps and get_steam_app.    *)
(*                                                                         *)
(* Characters are one-character strings; a Rust str is a sequence of them. *)
(* A Value is a record [t, s, e]: t is "Map", "Str" or "Null", s the text  *)
(* of a Str and e the entries [k, v] of a Map in their stored order.       *)
(***************************************************************************)
EXTENDS Integers, Sequences, FiniteSets, TLC

\* ------------------------------------------------------------------ bounds

\* tokens (strings, braces, whitespace, stray characters) one parse reads
MaxTokens == 7
\* characters of the stream handed to parse_str on its own
MaxStrInput == 5
\* libraries the library index lists
MaxLibs == 2
\* manifests one call of steam_apps reads and parses
MaxManifests == 3
\* keys of one library's apps block
MaxKeys == 3

\* ------------------------------------------------------------- characters

QUOTE == "\""
BSLASH == "\\"
CR == "<CR>"
LF == "<LF>"
EACUTE == "é"

\* char::len_utf8 of the characters the model reads
Utf8Len(c) == IF c = EACUTE THEN 2 ELSE 1

\* the characters the model reads, in ascending scalar value: str's Ord
\* compares the UTF-8 bytes, which orders strings as their scalar values do
CharOrder ==
  << LF, CR, " ", QUOTE, "-", "0", "1", "2", "3", "4", "5", "6", "7", "8", "9",
     "A", "B", "D", "O", "S", BSLASH,
     "a", "b", "c", "d", "e", "f", "g", "h", "i", "k", "l", "m", "n", "o", "p",
     "r", "s", "t", "x", "y", "z", "{", "}", EACUTE >>

\* the rank of a character in that order
Code(c) == CHOOSE i \in 1..Len(CharOrder) : CharOrder[i] = c

\* char::to_ascii_lowercase
ToAsciiLower(c) ==
  CASE c = "A" -> "a"
    [] c = "B" -> "b"
    [] c = "D" -> "d"
    [] c = "O" -> "o"
    [] c = "S" -> "s"
    [] OTHER -> c

\* str::eq_ignore_ascii_case
EqIgnoreAsciiCase(a, b) ==
  /\ Len(a) = Len(b)
  /\ \A i \in 1..Len(a) : ToAsciiLower(a[i]) = ToAsciiLower(b[i])

\* a < b in str's lexicographic order
RECURSIVE StrLess(_, _)
StrLess(a, b) ==
  IF b = <<>> THEN FALSE
  ELSE IF a = <<>> THEN TRUE
  ELSE IF Code(Head(a)) # Code(Head(b)) THEN Code(Head(a)) < Code(Head(b))
  ELSE StrLess(Tail(a), Tail(b))

StrLeq(a, b) == a = b \/ StrLess(a, b)

\* ------------------------------------------------------------------ Value

Null == [t |-> "Null", s |-> <<>>, e |-> <<>>]
Str(s) == [t |-> "Str", s |-> s, e |-> <<>>]
Map(e) == [t |-> "Map", s |-> <<>>, e |-> e]
Entry(k, v) == [k |-> k, v |-> v]

\* Value::iter: the entries of a Map in their stored order, nothing otherwise
Iter(v) == IF v.t = "Map" THEN v.e ELSE <<>>

\* the positions of the entries whose key matches
MatchAt(e, key) == {i \in 1..Len(e) : EqIgnoreAsciiCase(e[i].k, key)}

\* a lookup that compares keys exactly, letter case included
IndexExactCase(v, key) ==
  LET at == {i \in 1..Len(v.e) : v.e[i].k = key}
  IN IF v.t = "Map" /\ at # {}
     THEN v.e[CHOOSE i \in at : \A j \in at : i <= j].v
     ELSE Null

\* Index<&str> for Value: the first entry whose key matches, else Null
Index(v, key) ==
  IF v.t = "Map" /\ MatchAt(v.e, key) # {}
  THEN v.e[CHOOSE i \in MatchAt(v.e, key) : \A j \in MatchAt(v.e, key) : i <= j].v
  ELSE Null

\* sort_unstable_by(|a, b| a.0.cmp(&b.0)): every arrangement of the entries in
\* ascending key order; the order of entries with equal keys is not specified
RECURSIVE SortedByKey(_)
SortedByKey(e) ==
  IF e = <<>> THEN {<<>>}
  ELSE LET least == {i \in 1..Len(e) : \A j \in 1..Len(e) : StrLeq(e[i].k, e[j].k)}
           without(i) == SubSeq(e, 1, i - 1) \o SubSeq(e, i + 1, Len(e))
       IN UNION {{<<e[i]>> \o rest : rest \in SortedByKey(without(i))} : i \in least}

\* -------------------------------------------------------------- parse_str

\* &buf[..len]: the characters of buf that fill its first len bytes; slicing
\* inside a character panics
SliceBytes(buf, len) ==
  LET ends == {n \in 0..Len(buf) :
                 LET RECURSIVE Bytes(_)
                     Bytes(i) == IF i = 0 THEN 0 ELSE Bytes(i - 1) + Utf8Len(buf[i])
                 IN Bytes(n) = len}
  IN IF ends = {} THEN [ok |-> FALSE, val |-> <<>>]
     ELSE [ok |-> TRUE, val |-> SubSeq(buf, 1, CHOOSE n \in ends : TRUE)]

\* a length counted in characters instead of bytes
AdvanceLenByChar(len, next) == len + 1

\* len += next.len_utf8()
AdvanceLen(len, next) == len + Utf8Len(next)

\* the escaped character's decoding; <<>> where the match is unimplemented!()
Unescape(next) ==
  CASE next = QUOTE -> <<QUOTE>>
    [] next = "r" -> <<CR>>
    [] next = "n" -> <<LF>>
    [] next = BSLASH -> <<BSLASH>>
    [] OTHER -> <<>>

\* the loop of parse_str from position i of buf; owned is <<>> for None and
\* <<text>> for Some(text). The result is the call's outcome (kind "Ok" or
\* "Panic"), the decoded text, the characters left in the stream and whether
\* the call ended because the stream did.
RECURSIVE StrLoop(_, _, _, _, _)
StrLoop(buf, i, len, owned, is_escaped) ==
  IF i > Len(buf)
  THEN \* chars.next() is None: the string ends with the input
       IF owned # <<>> THEN [kind |-> "Ok", val |-> owned[1], rest |-> <<>>, eof |-> TRUE]
       ELSE LET sl == SliceBytes(buf, len)
            IN IF sl.ok THEN [kind |-> "Ok", val |-> sl.val, rest |-> <<>>, eof |-> TRUE]
               ELSE [kind |-> "Panic", val |-> <<>>, rest |-> <<>>, eof |-> TRUE]
  ELSE
    LET next == buf[i]
        rest == SubSeq(buf, i + 1, Len(buf))
    IN IF is_escaped
       THEN LET sl == SliceBytes(buf, len)
                text == IF owned # <<>> THEN owned[1] ELSE sl.val
            IN IF ~sl.ok \/ Unescape(next) = <<>>
               THEN [kind |-> "Panic", val |-> <<>>, rest |-> rest, eof |-> FALSE]
               ELSE StrLoop(buf, i + 1, len, <<text \o Unescape(next)>>, FALSE)
       ELSE IF next = QUOTE
       THEN IF owned # <<>> THEN [kind |-> "Ok", val |-> owned[1], rest |-> rest, eof |-> FALSE]
            ELSE LET sl == SliceBytes(buf, len)
                 IN IF sl.ok THEN [kind |-> "Ok", val |-> sl.val, rest |-> rest, eof |-> FALSE]
                    ELSE [kind |-> "Panic", val |-> <<>>, rest |-> rest, eof |-> FALSE]
       ELSE IF next = BSLASH
       THEN StrLoop(buf, i + 1, len, owned, TRUE)
       ELSE IF owned # <<>>
       THEN StrLoop(buf, i + 1, len, <<Append(owned[1], next)>>, FALSE)
       ELSE StrLoop(buf, i + 1, AdvanceLen(len, next), owned, FALSE)

\* parse_str(chars): chars stands just after the opening quote
ParseStr(chars) == StrLoop(chars, 1, 0, <<>>, FALSE)

\* ------------------------------------------------------------------ state

VARIABLES
  \* vdf_parse
  consumed,    \* the characters read from the stream so far
  tokens,      \* how many tokens were read
  eof,         \* the stream is exhausted
  stack,       \* the frames [map, key] of the open blocks, innermost last
  map,         \* the entries of the current map
  key,         \* <<>> for None, <<k>> for Some(k)
  out,         \* [kind, val]: "Run" while parsing, then "Ok", "Err" or "Panic"
  \* parse_str called on its own
  strIn,       \* the stream after an opening quote
  strOut,      \* <<>> before the call, <<result>> after it
  \* steam_apps
  aPc,         \* "start", "libs" (between directories), "dir" (in one), "done"
  aLibs,       \* libraries: the steamapps directory of each library
  aLib,        \* the position in libraries
  aApps,       \* apps: the records collected
  aSeen,       \* the manifests read and parsed so far, with their directory
  aOut,        \* what the call returned
  \* get_steam_app
  gPc,         \* "start", "scan", "done"
  gId,         \* app_id, the id asked for
  gLibs,       \* the entries of lib["libraryfolders"]
  gLib,        \* the position of the outer loop
  gApp,        \* the position of the inner loop, in map["apps"]
  gReads,      \* the manifests read and parsed so far, with their library
  gOut         \* what the call returned

parseVars == <<consumed, tokens, eof, stack, map, key, out>>
strVars == <<strIn, strOut>>
appsVars == <<aPc, aLibs, aLib, aApps, aSeen, aOut>>
getVars == <<gPc, gId, gLibs, gLib, gApp, gReads, gOut>>
vars == <<parseVars, strVars, appsVars, getVars>>

\* what vdf_parse leaves alone
beyondParse == <<strVars, appsVars, getVars>>

\* ---------------------------------------------------------------- vdf_parse

\* char::is_ascii_whitespace
IsAsciiWhitespace(c) == c \in {" ", LF, CR}

\* what the stream may hold after an opening quote, up to where parse_str
\* stops reading: closed strings, and one with an escape the decoder does
\* not know
StrTails ==
  { <<QUOTE>>, <<"b", QUOTE>>, <<"B", QUOTE>>, <<BSLASH, "b">> }

\* a character that starts no token
Stray == "x"

\* stream.next() is Some(start): the loop reads one more token
Reads(start) ==
  /\ out.kind = "Run"
  /\ ~eof
  /\ tokens < MaxTokens
  /\ tokens' = tokens + 1

InvalidData == [kind |-> "Err", val |-> Str(<<"I", "n", "v", "a", "l", "i", "d", "D", "a", "t", "a">>)]
Panicked == [kind |-> "Panic", val |-> Null]

\* if start.is_ascii_whitespace() { continue; }
SkipWhitespace ==
  /\ Reads(" ")
  /\ consumed' = Append(consumed, " ")
  /\ UNCHANGED <<eof, stack, map, key, out, beyondParse>>

\* key.is_none() and start == '"': key = Some(parse_str(..).unwrap())
ReadKey ==
  \E tail \in StrTails :
    LET r == ParseStr(tail)
    IN /\ Reads(QUOTE)
       /\ key = <<>>
       /\ r.rest = <<>>
       /\ consumed' = consumed \o <<QUOTE>> \o tail
       /\ IF r.kind = "Panic"
          THEN /\ out' = Panicked
               /\ UNCHANGED <<eof, key>>
          ELSE /\ key' = <<r.val>>
               /\ eof' = r.eof
               /\ out' = out
       /\ UNCHANGED <<stack, map, beyondParse>>

\* a pop that keeps the closed block and loses what the parent held before
PopFrameLosingParent(stk, m) ==
  LET top == stk[Len(stk)]
  IN [stack |-> SubSeq(stk, 1, Len(stk) - 1),
      map |-> <<Entry(top.key, Map(m))>>]

\* let (mut parent, key) = stack.pop().unwrap(); parent.push((key, Map(map)))
PopFrame(stk, m) ==
  LET top == stk[Len(stk)]
  IN [stack |-> SubSeq(stk, 1, Len(stk) - 1),
      map |-> Append(top.map, Entry(top.key, Map(m)))]

\* key.is_none() and start == '}': the current map closes into its parent;
\* stack.pop().unwrap() panics when no block is open
CloseBlock ==
  /\ Reads("}")
  /\ key = <<>>
  /\ consumed' = Append(consumed, "}")
  /\ IF stack = <<>>
     THEN /\ out' = Panicked
          /\ UNCHANGED <<stack, map>>
     ELSE /\ stack' = PopFrame(stack, map).stack
          /\ map' = PopFrame(stack, map).map
          /\ out' = out
  /\ UNCHANGED <<eof, key, beyondParse>>

\* key.is_none() and any other character: Err(InvalidData)
KeyError ==
  \E c \in {Stray, "{"} :
    /\ Reads(c)
    /\ key = <<>>
    /\ consumed' = Append(consumed, c)
    /\ out' = InvalidData
    /\ UNCHANGED <<eof, stack, map, key, beyondParse>>

\* key is Some and start == '"': map.push((key, Str(parse_str(..).unwrap())))
ReadValue ==
  \E tail \in StrTails :
    LET r == ParseStr(tail)
    IN /\ Reads(QUOTE)
       /\ key # <<>>
       /\ r.rest = <<>>
       /\ consumed' = consumed \o <<QUOTE>> \o tail
       /\ key' = <<>>
       /\ IF r.kind = "Panic"
          THEN /\ out' = Panicked
               /\ UNCHANGED <<eof, map>>
          ELSE /\ map' = Append(map, Entry(key[1], Str(r.val)))
               /\ eof' = r.eof
               /\ out' = out
       /\ UNCHANGED <<stack, beyondParse>>

\* stack.push((std::mem::take(&mut map), key)) on the map just sorted
PushFrame(stk, sorted, k) == Append(stk, [map |-> sorted, key |-> k])

\* key is Some and start == '{': the current map is sorted and pushed with
\* the key, and the block starts on an empty map
OpenBlock ==
  \E sorted \in SortedByKey(map) :
    /\ Reads("{")
    /\ key # <<>>
    /\ consumed' = Append(consumed, "{")
    /\ key' = <<>>
    /\ stack' = PushFrame(stack, sorted, key[1])
    /\ map' = <<>>
    /\ UNCHANGED <<eof, out, beyondParse>>

\* key is Some and any other character: Err(InvalidData)
ValueError ==
  \E c \in {Stray, "}"} :
    /\ Reads(c)
    /\ key # <<>>
    /\ consumed' = Append(consumed, c)
    /\ key' = <<>>
    /\ out' = InvalidData
    /\ UNCHANGED <<eof, stack, map, beyondParse>>

\* what vdf_parse returns when the loop ends: Ok(Value::Map(map))
Returned(sorted, stk) == [kind |-> "Ok", val |-> Map(sorted)]

\* stream.next() is None: the current map is sorted and returned
EndOfInput ==
  \E sorted \in SortedByKey(map) :
    /\ out.kind = "Run"
    /\ eof' = TRUE
    /\ out' = Returned(sorted, stack)
    /\ UNCHANGED <<consumed, tokens, stack, map, key, beyondParse>>

ParseNext ==
  \/ SkipWhitespace
  \/ ReadKey
  \/ CloseBlock
  \/ KeyError
  \/ ReadValue
  \/ OpenBlock
  \/ ValueError
  \/ EndOfInput

\* ------------------------------------------------- parse_str on its own

\* the characters a stream handed to parse_str is drawn from
StrChars == {QUOTE, BSLASH, "r", "n", "b", EACUTE}

RECURSIVE SeqsUpTo(_, _)
SeqsUpTo(S, n) ==
  IF n = 0 THEN {<<>>}
  ELSE LET shorter == SeqsUpTo(S, n - 1)
       IN shorter \cup {Append(q, c) : q \in shorter, c \in S}

\* the call parse_str(&mut chars)
DecodeStr ==
  /\ strOut = <<>>
  /\ strOut' = <<ParseStr(strIn)>>
  /\ UNCHANGED <<strIn, parseVars, appsVars, getVars>>

StrNext == DecodeStr

\* ------------------------------------------------------ as_str and as_int

\* Value::as_str: <<text>> for Some, <<>> for None
AsStr(v) == IF v.t = "Str" THEN <<v.s>> ELSE <<>>

Digits == <<"0", "1", "2", "3", "4", "5", "6", "7", "8", "9">>
IsDigit(c) == \E d \in 1..10 : Digits[d] = c
DigitValue(c) == (CHOOSE d \in 1..10 : Digits[d] = c) - 1

\* the largest magnitudes of i64 and u64, digit by digit
I64MaxDigits == <<"9", "2", "2", "3", "3", "7", "2", "0", "3", "6", "8", "5", "4", "7", "7", "5", "8", "0", "7">>
I64MinDigits == <<"9", "2", "2", "3", "3", "7", "2", "0", "3", "6", "8", "5", "4", "7", "7", "5", "8", "0", "8">>
U64MaxDigits == <<"1", "8", "4", "4", "6", "7", "4", "4", "0", "7", "3", "7", "0", "9", "5", "5", "1", "6", "1", "5">>

RECURSIVE StripZeros(_)
StripZeros(ds) == IF ds # <<>> /\ Head(ds) = "0" THEN StripZeros(Tail(ds)) ELSE ds

\* the number written by ds is at most the one written by limit
FitsIn(ds, limit) ==
  LET n == StripZeros(ds)
  IN \/ Len(n) < Len(limit)
     \/ Len(n) = Len(limit) /\ StrLeq(n, limit)

RECURSIVE DigitsValue(_)
DigitsValue(ds) ==
  IF ds = <<>> THEN 0
  ELSE 10 * DigitsValue(SubSeq(ds, 1, Len(ds) - 1)) + DigitValue(ds[Len(ds)])

\* {i64,u64}::from_str_radix(s, 10).ok(): an optional sign (no minus for
\* u64), then digits, the value within the type's range
FromStrRadix10(s, signed) ==
  LET sign == IF s # <<>> /\ (s[1] = "+" \/ (signed /\ s[1] = "-")) THEN s[1] ELSE ""
      ds == IF sign = "" THEN s ELSE Tail(s)
      limit == IF ~signed THEN U64MaxDigits
               ELSE IF sign = "-" THEN I64MinDigits ELSE I64MaxDigits
  IN IF ds = <<>> \/ (\E i \in 1..Len(ds) : ~IsDigit(ds[i])) \/ ~FitsIn(ds, limit)
     THEN <<>>
     ELSE <<IF sign = "-" THEN 0 - DigitsValue(ds) ELSE DigitsValue(ds)>>

\* Value::as_int
AsInt(v) == IF v.t = "Str" THEN FromStrRadix10(v.s, TRUE) ELSE <<>>

\* `n as u64`: a negative n wraps to n + 2^64, written [hi |-> 1, lo |-> n];
\* the others are [hi |-> 0, lo |-> n]
AsU64(n) == [hi |-> IF n < 0 THEN 1 ELSE 0, lo |-> n]

\* u64's order on those
U64Leq(a, b) == a.hi < b.hi \/ (a.hi = b.hi /\ a.lo <= b.lo)

\* ------------------------------------------------------------ file system

kLibraryfolders == <<"l", "i", "b", "r", "a", "r", "y", "f", "o", "l", "d", "e", "r", "s">>
kPath == <<"p", "a", "t", "h">>
kApps == <<"a", "p", "p", "s">>
kAppState == <<"A", "p", "p", "S", "t", "a", "t", "e">>
kAppid == <<"a", "p", "p", "i", "d">>
kSizeOnDisk == <<"S", "i", "z", "e", "O", "n", "D", "i", "s", "k">>
kInstalldir == <<"i", "n", "s", "t", "a", "l", "l", "d", "i", "r">>
kName == <<"n", "a", "m", "e">>
cSteamapps == <<"s", "t", "e", "a", "m", "a", "p", "p", "s">>
cCommon == <<"c", "o", "m", "m", "o", "n">>

\* Path::join on paths kept as their components: an absolute path replaces
\* the base
PathJoin(base, rel) ==
  IF rel # <<>> /\ rel[1] = "/" THEN <<rel>> ELSE Append(base, rel)

\* how a manifest file writes one of the four fields: not at all, as a
\* string, or as a block
Absent == [kind |-> "absent", s |-> <<>>]
Text(s) == [kind |-> "str", s |-> s]
Block == [kind |-> "map", s |-> <<>>]

Shape(block, lower, id, size, dir, name) ==
  [block |-> block, lower |-> lower, id |-> id, size |-> size, dir |-> dir, name |-> name]

\* the manifests a library may hold: two complete ones (the second written
\* in lower case, with a negative size), and ones with SizeOnDisk missing,
\* an appid beyond i64, installdir a block, name missing, or no AppState
ManifestShapes ==
  { Shape(TRUE, FALSE, Text(<<"1">>), Text(<<"7">>), Text(<<"d">>), Text(<<"n">>)),
    Shape(TRUE, TRUE, Text(<<"0", "2">>), Text(<<"-", "1">>), Text(<<"d">>), Text(<<"n">>)),
    Shape(TRUE, FALSE, Text(<<"1">>), Absent, Text(<<"d">>), Text(<<"n">>)),
    Shape(TRUE, FALSE, Text(I64MinDigits), Text(<<"7">>), Text(<<"d">>), Text(<<"n">>)),
    Shape(TRUE, FALSE, Text(<<"1">>), Text(<<"7">>), Block, Text(<<"n">>)),
    Shape(TRUE, FALSE, Text(<<"1">>), Text(<<"7">>), Text(<<"d">>), Absent),
    Shape(FALSE, FALSE, Text(<<"1">>), Text(<<"7">>), Text(<<"d">>), Text(<<"n">>)) }

Lowered(k) == [i \in 1..Len(k) |-> ToAsciiLower(k[i])]

\* the tree vdf_parse gives for a manifest written that way
ManifestTree(d) ==
  LET spell(k) == IF d.lower THEN Lowered(k) ELSE k
      field(k, f) == IF f.kind = "absent" THEN <<>>
                     ELSE <<Entry(spell(k), IF f.kind = "str" THEN Str(f.s) ELSE Map(<<>>))>>
      fields == field(kAppid, d.id) \o field(kName, d.name)
                  \o field(kInstalldir, d.dir) \o field(kSizeOnDisk, d.size)
  IN IF d.block THEN Map(<<Entry(spell(kAppState), Map(fields))>>) ELSE Map(<<>>)

\* how the library index writes one library: with or without a path, and the
\* keys of its apps block
LibShapes ==
  { [path |-> TRUE, apps |-> <<<<"1">>>>],
    [path |-> TRUE, apps |-> <<<<"x">>, <<"2">>, <<"1">>>>],
    [path |-> FALSE, apps |-> <<<<"1">>>>],
    [path |-> TRUE, apps |-> <<<<"2">>>>] }

\* the path the index gives library i
LibPath(i) == <<"l", Digits[i + 1]>>

\* the tree vdf_parse gives for a library index written that way
IndexTree(shapes) ==
  LET library(i) ==
        Map((IF shapes[i].path THEN <<Entry(kPath, Str(LibPath(i)))>> ELSE <<>>)
            \o <<Entry(kApps, Map([j \in 1..Len(shapes[i].apps) |->
                                     Entry(shapes[i].apps[j], Str(<<"0">>))]))>>)
  IN Map(<<Entry(kLibraryfolders,
                 Map([i \in 1..Len(shapes) |-> Entry(<<Digits[i]>>, library(i))]))>>)

IndexTrees == {IndexTree(shapes) : shapes \in SeqsUpTo(LibShapes, MaxLibs)}

Failed(err, at) == [kind |-> "Err", err |-> err, at |-> at, val |-> <<>>]
Aborted(at) == [kind |-> "Panic", err |-> "panic", at |-> at, val |-> <<>>]
Pending == [kind |-> "Run", err |-> "", at |-> "", val |-> <<>>]

\* how steam_dir, the read of the library index and its parse may end
IndexOutcomes ==
  {[dir |-> FALSE, read |-> FALSE, parse |-> "Err", lib |-> Null],
   [dir |-> TRUE, read |-> FALSE, parse |-> "Err", lib |-> Null],
   [dir |-> TRUE, read |-> TRUE, parse |-> "Err", lib |-> Null],
   [dir |-> TRUE, read |-> TRUE, parse |-> "Panic", lib |-> Null]}
  \cup {[dir |-> TRUE, read |-> TRUE, parse |-> "Ok", lib |-> t] : t \in IndexTrees}

\* what the first five lines of both operations return early with, if anything
IndexFailure(o) ==
  IF ~o.dir THEN Failed("NotFound", "steam_dir")
  ELSE IF ~o.read THEN Failed("Io", "read index")
  ELSE IF o.parse = "Err" THEN Failed("InvalidData", "parse index")
  ELSE IF o.parse = "Panic" THEN Aborted("parse index")
  ELSE Pending

\* a closure that takes a SizeOnDisk it cannot read as 0
ExtractAppSizeOptional(state, root) ==
  LET id == AsInt(Index(state, kAppid))
      size == AsInt(Index(state, kSizeOnDisk))
      dir == AsStr(Index(state, kInstalldir))
      name == AsStr(Index(state, kName))
  IN IF id = <<>> \/ dir = <<>> \/ name = <<>> THEN <<>>
     ELSE <<[app_id |-> AsU64(id[1]),
             size_on_disk |-> AsU64(IF size = <<>> THEN 0 ELSE size[1]),
             path |-> PathJoin(root, dir[1]), name |-> name[1]]>>

\* the closure building an App from the AppState block: <<>> for None
ExtractApp(state, root) ==
  LET id == AsInt(Index(state, kAppid))
      size == AsInt(Index(state, kSizeOnDisk))
      dir == AsStr(Index(state, kInstalldir))
      name == AsStr(Index(state, kName))
  IN IF id = <<>> \/ size = <<>> \/ dir = <<>> \/ name = <<>> THEN <<>>
     ELSE <<[app_id |-> AsU64(id[1]), size_on_disk |-> AsU64(size[1]),
             path |-> PathJoin(root, dir[1]), name |-> name[1]]>>

\* ------------------------------------------------------------- steam_apps

\* the library directories: path/steamapps for every entry of libraryfolders
\* whose path is a string
Libraries(lib) ==
  LET folders == Iter(Index(lib, kLibraryfolders))
      RECURSIVE collect(_)
      collect(i) ==
        IF i > Len(folders) THEN <<>>
        ELSE LET p == AsStr(Index(folders[i].v, kPath))
             IN (IF p = <<>> THEN <<>> ELSE <<PathJoin(<<p[1]>>, cSteamapps)>>)
                  \o collect(i + 1)
  IN collect(1)

\* steam_dir, the read and parse of the library index, the list of libraries
AppsStart ==
  \E o \in IndexOutcomes :
    /\ aPc = "start"
    /\ IF IndexFailure(o).kind # "Run"
       THEN /\ aOut' = IndexFailure(o)
            /\ aPc' = "done"
            /\ UNCHANGED aLibs
       ELSE /\ aLibs' = Libraries(o.lib)
            /\ aPc' = "libs"
            /\ UNCHANGED aOut
    /\ UNCHANGED <<aLib, aApps, aSeen, parseVars, strVars, getVars>>

\* fs::read_dir(path)? on the next library
AppsOpenDir ==
  \E listed \in BOOLEAN :
    /\ aPc = "libs"
    /\ aLib <= Len(aLibs)
    /\ IF listed
       THEN aPc' = "dir" /\ UNCHANGED aOut
       ELSE aPc' = "done" /\ aOut' = Failed("Io", "read_dir")
    /\ UNCHANGED <<aLibs, aLib, aApps, aSeen, parseVars, strVars, getVars>>

\* the directory yields an entry that cannot be read: fd?
AppsEntryError ==
  /\ aPc = "dir"
  /\ aPc' = "done"
  /\ aOut' = Failed("Io", "dir entry")
  /\ UNCHANGED <<aLibs, aLib, aApps, aSeen, parseVars, strVars, getVars>>

\* the directory yields an entry whose extension is not acf
AppsOtherFile ==
  /\ aPc = "dir"
  /\ UNCHANGED vars

\* the directory yields a manifest that cannot be read or does not parse:
\* fs::read_to_string(path)? and vdf_parse(..)?
AppsManifestFails ==
  \E how \in {"read", "Err", "Panic"} :
    /\ aPc = "dir"
    /\ aPc' = "done"
    /\ aOut' = CASE how = "read" -> Failed("Io", "read manifest")
                 [] how = "Err" -> Failed("InvalidData", "parse manifest")
                 [] how = "Panic" -> Aborted("parse manifest")
    /\ UNCHANGED <<aLibs, aLib, aApps, aSeen, parseVars, strVars, getVars>>

\* apps after a manifest was parsed: its record is pushed if there is one
Collect(apps, app) == IF app = <<>> THEN apps ELSE Append(apps, app[1])

\* the directory yields a manifest that parses
AppsManifest ==
  \E d \in ManifestShapes :
    LET ast == ManifestTree(d)
        root == PathJoin(aLibs[aLib], cCommon)
    IN /\ aPc = "dir"
       /\ Len(aSeen) < MaxManifests
       /\ aApps' = Collect(aApps, ExtractApp(Index(ast, kAppState), root))
       /\ aSeen' = Append(aSeen, [dir |-> aLibs[aLib], d |-> d])
       /\ UNCHANGED <<aPc, aLibs, aLib, aOut, parseVars, strVars, getVars>>

\* the directory has no more entries
AppsEndDir ==
  /\ aPc = "dir"
  /\ aPc' = "libs"
  /\ aLib' = aLib + 1
  /\ UNCHANGED <<aLibs, aApps, aSeen, aOut, parseVars, strVars, getVars>>

\* sort_unstable_by(|a, b| a.app_id.cmp(&b.app_id)): every arrangement in
\* ascending app_id
RECURSIVE SortedById(_)
SortedById(apps) ==
  IF apps = <<>> THEN {<<>>}
  ELSE LET least == {i \in 1..Len(apps) :
                       \A j \in 1..Len(apps) : U64Leq(apps[i].app_id, apps[j].app_id)}
           without(i) == SubSeq(apps, 1, i - 1) \o SubSeq(apps, i + 1, Len(apps))
       IN UNION {{<<apps[i]>> \o rest : rest \in SortedById(without(i))} : i \in least}

\* no library is left: the records are sorted and returned
AppsFinish ==
  \E sorted \in SortedById(aApps) :
    /\ aPc = "libs"
    /\ aLib > Len(aLibs)
    /\ aPc' = "done"
    /\ aOut' = [kind |-> "Ok", err |-> "", at |-> "", val |-> sorted]
    /\ UNCHANGED <<aLibs, aLib, aApps, aSeen, parseVars, strVars, getVars>>

AppsNext ==
  \/ AppsStart
  \/ AppsOpenDir
  \/ AppsEntryError
  \/ AppsOtherFile
  \/ AppsManifestFails
  \/ AppsManifest
  \/ AppsEndDir
  \/ AppsFinish

\* ---------------------------------------------------------- get_steam_app

\* the ids asked for
Ids == {1, 2}

\* steam_dir, the read and parse of the library index
GetStart ==
  \E o \in IndexOutcomes :
    /\ gPc = "start"
    /\ IF IndexFailure(o).kind # "Run"
       THEN /\ gOut' = IndexFailure(o)
            /\ gPc' = "done"
            /\ UNCHANGED gLibs
       ELSE /\ gLibs' = Iter(Index(o.lib, kLibraryfolders))
            /\ gPc' = "scan"
            /\ UNCHANGED gOut
    /\ UNCHANGED <<gId, gLib, gApp, gReads, parseVars, strVars, appsVars>>

\* the keys of the current library's apps block
AppKeys == Iter(Index(gLibs[gLib].v, kApps))

\* the inner loop stands on a key that is the id asked for
OnTarget ==
  /\ gPc = "scan"
  /\ gLib <= Len(gLibs)
  /\ gApp <= Len(AppKeys)
  /\ FromStrRadix10(AppKeys[gApp].k, FALSE) = <<gId>>

\* the apps block of the current library has no more keys
GetNextLibrary ==
  /\ gPc = "scan"
  /\ gLib <= Len(gLibs)
  /\ gApp > Len(AppKeys)
  /\ gLib' = gLib + 1
  /\ gApp' = 1
  /\ UNCHANGED <<gPc, gId, gLibs, gReads, gOut, parseVars, strVars, appsVars>>

\* a key that is no number, or another id: the loop moves on
GetSkipKey ==
  /\ gPc = "scan"
  /\ gLib <= Len(gLibs)
  /\ gApp <= Len(AppKeys)
  /\ FromStrRadix10(AppKeys[gApp].k, FALSE) # <<gId>>
  /\ gApp' = gApp + 1
  /\ UNCHANGED <<gPc, gId, gLibs, gLib, gReads, gOut, parseVars, strVars, appsVars>>

\* the id is listed by a library whose path is no string: the loop moves on
GetNoPath ==
  /\ OnTarget
  /\ AsStr(Index(gLibs[gLib].v, kPath)) = <<>>
  /\ gApp' = gApp + 1
  /\ UNCHANGED <<gPc, gId, gLibs, gLib, gReads, gOut, parseVars, strVars, appsVars>>

\* the manifest of the id cannot be read or does not parse:
\* fs::read_to_string(&path)? and vdf_parse(..)?
GetManifestFails ==
  \E how \in {"read", "Err", "Panic"} :
    /\ OnTarget
    /\ AsStr(Index(gLibs[gLib].v, kPath)) # <<>>
    /\ gPc' = "done"
    /\ gOut' = CASE how = "read" -> Failed("Io", "read manifest")
                 [] how = "Err" -> Failed("InvalidData", "parse manifest")
                 [] how = "Panic" -> Aborted("parse manifest")
    /\ UNCHANGED <<gId, gLibs, gLib, gApp, gReads, parseVars, strVars, appsVars>>

\* a lookup that ends with NotFound at the first manifest giving no record
AfterExtractStopping(app) ==
  IF app # <<>>
  THEN [pc |-> "done", out |-> [kind |-> "Ok", err |-> "", at |-> "", val |-> app[1]], step |-> 0]
  ELSE [pc |-> "done", out |-> Failed("NotFound", "not found"), step |-> 0]

\* after the closure ran on the manifest: return Ok(app) for Some(app), and
\* fall through to the next key for None
AfterExtract(app) ==
  IF app # <<>>
  THEN [pc |-> "done", out |-> [kind |-> "Ok", err |-> "", at |-> "", val |-> app[1]], step |-> 0]
  ELSE [pc |-> "scan", out |-> Pending, step |-> 1]

\* the manifest of the id is read and parsed
GetManifest ==
  \E d \in ManifestShapes :
    LET path == AsStr(Index(gLibs[gLib].v, kPath))
        ast == ManifestTree(d)
        root == <<path[1], cSteamapps, cCommon>>
        next == AfterExtract(ExtractApp(Index(ast, kAppState), root))
    IN /\ OnTarget
       /\ path # <<>>
       /\ gReads' = Append(gReads, [lib |-> gLib, d |-> d])
       /\ gPc' = next.pc
       /\ gOut' = next.out
       /\ gApp' = gApp + next.step
       /\ UNCHANGED <<gId, gLibs, gLib, parseVars, strVars, appsVars>>

\* no library is left: Err(NotFound)
GetNotFound ==
  /\ gPc = "scan"
  /\ gLib > Len(gLibs)
  /\ gPc' = "done"
  /\ gOut' = Failed("NotFound", "not found")
  /\ UNCHANGED <<gId, gLibs, gLib, gApp, gReads, parseVars, strVars, appsVars>>

GetNext ==
  \/ GetStart
  \/ GetNextLibrary
  \/ GetSkipKey
  \/ GetNoPath
  \/ GetManifestFails
  \/ GetManifest
  \/ GetNotFound

\* --------------------------------------------------------- specifications

\* vdf_parse on a stream read token by token, the other operations idle
InitParse ==
  /\ consumed = <<>> /\ tokens = 0 /\ eof = FALSE
  /\ stack = <<>> /\ map = <<>> /\ key = <<>>
  /\ out = [kind |-> "Run", val |-> Null]
  /\ strIn = <<>> /\ strOut = <<>>
  /\ aPc = "idle" /\ aLibs = <<>> /\ aLib = 1 /\ aApps = <<>> /\ aSeen = <<>>
  /\ aOut = Pending
  /\ gPc = "idle" /\ gId = 1 /\ gLibs = <<>> /\ gLib = 1 /\ gApp = 1
  /\ gReads = <<>> /\ gOut = Pending

SpecParse == InitParse /\ [][ParseNext]_vars

\* parse_str on every stream within the bound
InitStr ==
  /\ strIn \in SeqsUpTo(StrChars, MaxStrInput) /\ strOut = <<>>
  /\ consumed = <<>> /\ tokens = 0 /\ eof = TRUE
  /\ stack = <<>> /\ map = <<>> /\ key = <<>>
  /\ out = [kind |-> "Idle", val |-> Null]
  /\ aPc = "idle" /\ aLibs = <<>> /\ aLib = 1 /\ aApps = <<>> /\ aSeen = <<>>
  /\ aOut = Pending
  /\ gPc = "idle" /\ gId = 1 /\ gLibs = <<>> /\ gLib = 1 /\ gApp = 1
  /\ gReads = <<>> /\ gOut = Pending

SpecStr == InitStr /\ [][StrNext]_vars

\* steam_apps on every file system within the bounds
InitApps ==
  /\ aPc = "start" /\ aLibs = <<>> /\ aLib = 1 /\ aApps = <<>> /\ aSeen = <<>>
  /\ aOut = Pending
  /\ consumed = <<>> /\ tokens = 0 /\ eof = TRUE
  /\ stack = <<>> /\ map = <<>> /\ key = <<>>
  /\ out = [kind |-> "Idle", val |-> Null]
  /\ strIn = <<>> /\ strOut = <<>>
  /\ gPc = "idle" /\ gId = 1 /\ gLibs = <<>> /\ gLib = 1 /\ gApp = 1
  /\ gReads = <<>> /\ gOut = Pending

SpecApps == InitApps /\ [][AppsNext]_vars

\* get_steam_app on every id and file system within the bounds
InitGet ==
  /\ gPc = "start" /\ gId \in Ids /\ gLibs = <<>> /\ gLib = 1 /\ gApp = 1
  /\ gReads = <<>> /\ gOut = Pending
  /\ consumed = <<>> /\ tokens = 0 /\ eof = TRUE
  /\ stack = <<>> /\ map = <<>> /\ key = <<>>
  /\ out = [kind |-> "Idle", val |-> Null]
  /\ strIn = <<>> /\ strOut = <<>>
  /\ aPc = "idle" /\ aLibs = <<>> /\ aLib = 1 /\ aApps = <<>> /\ aSeen = <<>>
  /\ aOut = Pending

SpecGet == InitGet /\ [][GetNext]_vars

\* ------------------------------------------------- the format, read directly

\* what an escape stands for in the format: \" \\ \r \n
EscapeOf(c) ==
  CASE c = QUOTE -> QUOTE
    [] c = BSLASH -> BSLASH
    [] c = "r" -> CR
    [] c = "n" -> LF

\* the position of the first unescaped quote of text at or after p, 0 if none
RECURSIVE ClosingQuote(_, _)
ClosingQuote(text, p) ==
  IF p > Len(text) THEN 0
  ELSE IF text[p] = QUOTE THEN p
  ELSE IF text[p] = BSLASH THEN ClosingQuote(text, p + 2)
  ELSE ClosingQuote(text, p + 1)

\* every backslash of a string body starts one of the four escapes
RECURSIVE EscapesKnown(_)
EscapesKnown(body) ==
  IF body = <<>> THEN TRUE
  ELSE IF Head(body) = BSLASH
  THEN /\ Len(body) >= 2
       /\ body[2] \in {QUOTE, BSLASH, "r", "n"}
       /\ EscapesKnown(SubSeq(body, 3, Len(body)))
  ELSE EscapesKnown(Tail(body))

\* the text a string body with known escapes stands for
RECURSIVE Unescaped(_)
Unescaped(body) ==
  IF body = <<>> THEN <<>>
  ELSE IF Head(body) = BSLASH
  THEN <<EscapeOf(body[2])>> \o Unescaped(SubSeq(body, 3, Len(body)))
  ELSE <<Head(body)>> \o Unescaped(Tail(body))

\* the quoted string whose opening quote is at p - 1
QuotedAt(text, p) ==
  LET q == ClosingQuote(text, p)
      body == SubSeq(text, p, q - 1)
  IN IF q = 0 \/ ~EscapesKnown(body)
     THEN [ok |-> FALSE, val |-> <<>>, pos |-> p]
     ELSE [ok |-> TRUE, val |-> Unescaped(body), pos |-> q + 1]

RECURSIVE SkipBlank(_, _)
SkipBlank(text, p) ==
  IF p <= Len(text) /\ IsAsciiWhitespace(text[p]) THEN SkipBlank(text, p + 1) ELSE p

\* a recursive-descent reading of a block's entries from position p: with
\* nested, up to and including its closing brace; otherwise up to the end of
\* the text. The entries come in the order they are written.
RECURSIVE Descend(_, _, _, _)
Descend(text, p0, acc, nested) ==
  LET p == SkipBlank(text, p0)
      fail == [ok |-> FALSE, e |-> <<>>, pos |-> p]
  IN IF p > Len(text) THEN [ok |-> ~nested, e |-> acc, pos |-> p]
     ELSE IF text[p] = "}" THEN [ok |-> nested, e |-> acc, pos |-> p + 1]
     ELSE IF text[p] # QUOTE THEN fail
     ELSE
       LET k == QuotedAt(text, p + 1)
           q == SkipBlank(text, k.pos)
       IN IF ~k.ok \/ q > Len(text) THEN fail
          ELSE IF text[q] = QUOTE
          THEN LET v == QuotedAt(text, q + 1)
               IN IF ~v.ok THEN fail
                  ELSE Descend(text, v.pos, Append(acc, Entry(k.val, Str(v.val))), nested)
          ELSE IF text[q] = "{"
          THEN LET b == Descend(text, q + 1, <<>>, TRUE)
               IN IF ~b.ok THEN fail
                  ELSE Descend(text, b.pos, Append(acc, Entry(k.val, Map(b.e))), nested)
          ELSE fail

\* the whole text as a document: ok when it is well formed
Document(text) == Descend(text, 1, <<>>, FALSE)

\* two trees equal up to the order of the entries within each map
RECURSIVE SameUpToOrder(_, _)
SameUpToOrder(a, b) ==
  \/ a = b
  \/ /\ a.t = b.t
     /\ a.s = b.s
     /\ Len(a.e) = Len(b.e)
     /\ \E p \in [1..Len(a.e) -> 1..Len(a.e)] :
          /\ \A i, j \in 1..Len(a.e) : i # j => p[i] # p[j]
          /\ \A i \in 1..Len(a.e) :
               /\ a.e[i].k = b.e[p[i]].k
               /\ SameUpToOrder(a.e[i].v, b.e[p[i]].v)

\* a map's keys ascend, and so do those of every map below it
RECURSIVE SortedThroughout(_)
SortedThroughout(v) ==
  /\ \A i \in 1..(Len(v.e) - 1) : StrLeq(v.e[i].k, v.e[i + 1].k)
  /\ \A i \in 1..Len(v.e) : SortedThroughout(v.e[i].v)

\* the value a path of keys leads to
RECURSIVE Navigate(_, _)
Navigate(v, path) ==
  IF path = <<>> THEN v ELSE Navigate(Index(v, Head(path)), Tail(path))

\* the keys lookups are tried with
LookupKeys == {<<>>, <<"b">>, <<"B">>}

\* ------------------------------------------------------------------ claims

\* C1: every Map of a tree vdf_parse returns, the root and each nested map,
\* has its entries in ascending key order.
C1_EveryMapSorted == out.kind = "Ok" => SortedThroughout(out.val)

\* C2: when the input ends while a block is still open, vdf_parse fails.
C2_UnterminatedFails ==
  (eof /\ out.kind # "Run" /\ stack # <<>>) => out.kind = "Err"

\* C5: vdf_parse never ends abnormally: it returns a root Map or fails with
\* InvalidData, also on an unknown escape and on a closing brace met while no
\* block is open.
C5_NeverAbnormal == out.kind \in {"Run", "Ok", "Err"}

\* C8: for a stream that holds an unescaped closing quote after a body of
\* known escapes, parse_str returns the body with each escape replaced and
\* every other character kept, and leaves the stream just after the quote.
C8_DecodesBody ==
  (strOut # <<>> /\ QuotedAt(strIn, 1).ok) =>
    /\ strOut[1].kind = "Ok"
    /\ strOut[1].val = QuotedAt(strIn, 1).val
    /\ strOut[1].rest = SubSeq(strIn, QuotedAt(strIn, 1).pos, Len(strIn))

\* C8 witness: a multi-byte character, then the first escape, then a plain
\* character and the closing quote have been decoded.
C8_Witness ==
  /\ strOut # <<>>
  /\ strIn = <<EACUTE, BSLASH, "n", "b", QUOTE>>
  /\ strOut[1].val = <<EACUTE, LF, "b">>

\* C9: on a well-formed input vdf_parse returns the tree a recursive reading
\* of the text gives, up to the order of entries within each map, so a path
\* of keys leads to the same value in both.
C9_MatchesRecursiveParse ==
  out.kind # "Run" =>
    LET doc == Document(consumed)
    IN doc.ok => /\ out.kind = "Ok"
                 /\ SameUpToOrder(out.val, Map(doc.e))

\* C9 witness: a document with a nested block holding an entry was parsed, and
\* the path to that entry leads to its value.
C9_Witness ==
  /\ out.kind = "Ok"
  /\ Document(consumed).ok
  /\ stack = <<>>
  /\ Navigate(out.val, <<<<"b">>, <<"B">>>>) = Str(<<"b">>)
  /\ Len(out.val.e) = 2

\* the first entry of e, in the order written, whose key matches
FirstWritten(e, lookup) ==
  e[CHOOSE i \in MatchAt(e, lookup) : \A j \in MatchAt(e, lookup) : i <= j].v

\* every lookup in the parsed tree gives what the text, read in the order it
\* is written, gives: Null for a key no entry matches, else the first matching
\* entry written, and so on within that entry's map
RECURSIVE LookupsGiveFirstWritten(_, _)
LookupsGiveFirstWritten(parsed, written) ==
  \A k \in LookupKeys :
    IF MatchAt(written.e, k) = {}
    THEN Index(parsed, k) = Null
    ELSE /\ SameUpToOrder(Index(parsed, k), FirstWritten(written.e, k))
         /\ LookupsGiveFirstWritten(Index(parsed, k), FirstWritten(written.e, k))

\* every lookup in the parsed tree gives Null for a key no entry written
\* matches, else the value of one of the matching entries written (the one
\* entry, when a single one matches), and so on within that entry's map
RECURSIVE LookupsGiveAMatch(_, _)
LookupsGiveAMatch(parsed, written) ==
  \A k \in LookupKeys :
    IF MatchAt(written.e, k) = {}
    THEN Index(parsed, k) = Null
    ELSE \E i \in MatchAt(written.e, k) :
           /\ SameUpToOrder(Index(parsed, k), written.e[i].v)
           /\ LookupsGiveAMatch(Index(parsed, k), written.e[i].v)

\* C6 as claimed: in every map vdf_parse builds, index(key) returns the value
\* of the first entry, in the order written in the source, whose key matches
\* ignoring ASCII case, duplicates and case variants included.
C6_FirstWrittenWins ==
  out.kind = "Ok" =>
    LET doc == Document(consumed)
    IN doc.ok => LookupsGiveFirstWritten(out.val, Map(doc.e))

\* C6 as amended: in every map vdf_parse builds, index(key) returns Null for
\* a key no entry matches ignoring ASCII case, and otherwise the value of an
\* entry that matches: the one entry when a single one matches, whatever the
\* sorting did, and one of them, not always the first written, when several do.
C6_LookupGivesAMatchingEntry ==
  out.kind = "Ok" =>
    LET doc == Document(consumed)
    IN doc.ok => LookupsGiveAMatch(out.val, Map(doc.e))

\* C6 witness: the sort moved the entries of the root away from the order
\* written, and a lookup in another letter case still finds the one entry
\* that matches.
C6_Witness ==
  /\ out.kind = "Ok"
  /\ Document(consumed).ok
  /\ out.val.e # Document(consumed).e
  /\ Cardinality(MatchAt(out.val.e, <<"B">>)) = 1
  /\ Index(out.val, <<"B">>) = Str(<<"b">>)
  /\ out.val.e[2].k = <<"b">>

\* ----------------------------------------------- manifests, read directly

\* the number an integer text of the manifests above writes, <<>> for a text
\* that writes no 64-bit integer
Written(s) ==
  CASE s = <<"1">> -> <<1>>
    [] s = <<"0", "2">> -> <<2>>
    [] s = <<"7">> -> <<7>>
    [] s = <<"-", "1">> -> <<0 - 1>>
    [] OTHER -> <<>>

\* the manifest has an AppState block with all four fields of the right type
Complete(d) ==
  /\ d.block
  /\ d.id.kind = "str" /\ Written(d.id.s) # <<>>
  /\ d.size.kind = "str" /\ Written(d.size.s) # <<>>
  /\ d.dir.kind = "str"
  /\ d.name.kind = "str"

\* a 64-bit integer taken as unsigned
Unsigned(n) == IF n >= 0 THEN [hi |-> 0, lo |-> n] ELSE [hi |-> 1, lo |-> n]

\* the record of a complete manifest found under root
RecordOf(d, root) ==
  [app_id |-> Unsigned(Written(d.id.s)[1]),
   size_on_disk |-> Unsigned(Written(d.size.s)[1]),
   path |-> Append(root, d.dir.s),
   name |-> d.name.s]

\* how often x occurs in a sequence
Count(q, x) == Cardinality({i \in 1..Len(q) : q[i] = x})

\* the same records, each as often, in any order
SameRecords(a, b) ==
  /\ Len(a) = Len(b)
  /\ \A i \in 1..Len(a) : Count(a, a[i]) = Count(b, a[i])

\* the records of the complete manifests among those steam_apps parsed
RECURSIVE RecordsOf(_)
RecordsOf(seen) ==
  IF seen = <<>> THEN <<>>
  ELSE LET m == seen[Len(seen)]
           before == RecordsOf(SubSeq(seen, 1, Len(seen) - 1))
       IN IF Complete(m.d)
          THEN Append(before, RecordOf(m.d, Append(m.dir, cCommon)))
          ELSE before

\* the places where the code lets an I/O or parse failure end the call
FatalPlaces ==
  {"steam_dir", "read index", "parse index", "read_dir", "dir entry",
   "read manifest", "parse manifest"}

\* the text that writes an id
IdText(id) == <<Digits[id + 1]>>

\* the keys of a library's apps block and whether its path is a string, read
\* off the tree field by field
KeysOf(library) ==
  LET at == {i \in 1..Len(library.e) : library.e[i].k = kApps}
  IN IF at = {} THEN <<>> ELSE library.e[CHOOSE i \in at : TRUE].v.e
HasPath(library) ==
  \E i \in 1..Len(library.e) : library.e[i].k = kPath /\ library.e[i].v.t = "Str"

\* the libraries that list the id
Listing(libs, id) ==
  {i \in 1..Len(libs) : \E j \in 1..Len(KeysOf(libs[i].v)) : KeysOf(libs[i].v)[j].k = IdText(id)}

\* the listings of the id whose manifest the lookup can name
Listings(libs, id) ==
  {<<i, j>> \in (1..Len(libs)) \X (1..MaxKeys) :
     /\ HasPath(libs[i].v)
     /\ j <= Len(KeysOf(libs[i].v))
     /\ KeysOf(libs[i].v)[j].k = IdText(id)}

\* C3: in steam_apps a manifest that cannot be read or does not parse does
\* not abort the call; the call goes on to return Ok.
C3_ManifestFailureTolerated ==
  aOut.kind = "Err" => aOut.at \notin {"read manifest", "parse manifest"}

\* C4 as claimed: when the manifest of the first library that lists the id
\* lacks one of the four fields, get_steam_app ends with NotFound there and
\* reads no other manifest.
C4_StopsAtFirstListing ==
  (/\ gPc = "done"
   /\ gReads # <<>>
   /\ \A i \in Listing(gLibs, gId) : gReads[1].lib <= i
   /\ ~Complete(gReads[1].d)) =>
    /\ gOut.kind = "Err" /\ gOut.err = "NotFound"
    /\ Len(gReads) = 1

\* C4 as amended: a manifest of the id that lacks one of the four fields
\* gives no record and the scan goes on to the later keys and libraries. The
\* call returns the record of the first listed manifest that has all four,
\* and ends with NotFound only once every listed manifest was read and none
\* had them.
C4_ScanContinues ==
  gPc = "done" =>
    /\ \A i \in 1..(Len(gReads) - 1) : ~Complete(gReads[i].d)
    /\ gOut.kind = "Ok" =>
         /\ gReads # <<>>
         /\ Complete(gReads[Len(gReads)].d)
         /\ gOut.val = RecordOf(gReads[Len(gReads)].d,
                                <<LibPath(gReads[Len(gReads)].lib), cSteamapps, cCommon>>)
    /\ (gOut.kind = "Err" /\ gOut.err = "NotFound" /\ gOut.at # "steam_dir") =>
         /\ \A i \in 1..Len(gReads) : ~Complete(gReads[i].d)
         /\ Len(gReads) = Cardinality(Listings(gLibs, gId))

\* C4 witness: the first library listing the id had a manifest lacking a
\* field, the scan went on and a later library's manifest gave the record.
C4_Witness ==
  /\ gPc = "done"
  /\ Len(gReads) = 2
  /\ \A i \in Listing(gLibs, gId) : gReads[1].lib <= i
  /\ ~Complete(gReads[1].d)
  /\ gReads[2].lib > gReads[1].lib
  /\ gOut.kind = "Ok"

\* C7: when every manifest is read and parsed, steam_apps returns exactly one
\* record for each manifest whose AppState block has the four fields with the
\* right types and none for the others, and only an I/O or parse failure makes
\* the call fail.
C7_OneRecordPerCompleteManifest ==
  aPc = "done" =>
    /\ aOut.kind = "Ok" => SameRecords(aOut.val, RecordsOf(aSeen))
    /\ aOut.kind # "Ok" => aOut.at \in FatalPlaces

\* C7 witness: three manifests were parsed, one of them without SizeOnDisk,
\* and the call returned two records.
C7_Witness ==
  /\ aPc = "done"
  /\ aOut.kind = "Ok"
  /\ Len(aSeen) = 3
  /\ Cardinality({i \in 1..3 : aSeen[i].d.size = Absent}) = 1
  /\ Cardinality({i \in 1..3 : Complete(aSeen[i].d)}) = 2
  /\ Len(aOut.val) = 2

\* C10: a record get_steam_app returns has the id asked for as its app_id.
C10_RecordHasRequestedId ==
  (gPc = "done" /\ gOut.kind = "Ok") => gOut.val.app_id = Unsigned(gId)

====
